---- MODULE Spec2Model ----
(***************************************************************************)
(* Model of dieboldmariano.py: the autocovariance estimator, the modified  *)
(* Lentz continued-fraction evaluator, the regularized incomplete beta     *)
(* function and the dm_test orchestrator.                                  *)
(*                                                                         *)
(* Floats are modelled as exact rationals <<num, den>> in lowest terms     *)
(* with den > 0; the float NaN is the pair <<0, 0>>.  Each function is a   *)
(* frame (a record of its parameters and locals plus a program counter);   *)
(* an idle frame has pc = "idle".                                          *)
(***************************************************************************)
EXTENDS Integers, Sequences, FiniteSets, TLC

VARIABLES acv, cf, rib, dm

vars == <<acv, cf, rib, dm>>

(***************************************************************************)
(* Bounds of the model.                                                    *)
(***************************************************************************)
MaxN == 3

MaxIter == 4

MaxGrid == 4

(***************************************************************************)
(* Float arithmetic (exact).                                               *)
(***************************************************************************)
Abs(i) == IF i < 0 THEN -i ELSE i

Min(i, j) == IF i < j THEN i ELSE j

RECURSIVE GCD(_, _)
GCD(m, n) == IF n = 0 THEN m ELSE GCD(n, m % n)

Rat(p, q) ==
    LET g == GCD(Abs(p), Abs(q))
        s == IF q < 0 THEN -1 ELSE 1
    IN  <<(s * p) \div g, (s * q) \div g>>

nan == <<0, 0>>

isnan(u) == u[2] = 0

float(i) == <<i, 1>>

\* The operations cancel common factors before they multiply, so that the
\* intermediate integers stay small.
RAdd(u, v) ==
    LET g == GCD(u[2], v[2])
    IN  Rat(u[1] * (v[2] \div g) + v[1] * (u[2] \div g), (u[2] \div g) * v[2])

RSub(u, v) == RAdd(u, <<-v[1], v[2]>>)

RMul(u, v) ==
    LET g == GCD(Abs(u[1]), v[2])
        k == GCD(Abs(v[1]), u[2])
    IN  IF u[1] = 0 \/ v[1] = 0 THEN <<0, 1>>
        ELSE <<(u[1] \div g) * (v[1] \div k), (u[2] \div k) * (v[2] \div g)>>

RDiv(u, v) ==
    RMul(u, IF v[1] < 0 THEN <<-v[2], -v[1]>> ELSE <<v[2], v[1]>>)

RLt(u, v) ==
    LET g == GCD(u[2], v[2])
    IN  u[1] * (v[2] \div g) < v[1] * (u[2] \div g)

RLe(u, v) == ~RLt(v, u)

fabs(u) == <<Abs(u[1]), u[2]>>

\* The sequences of floats of the values S with lo to hi elements.
FloatSeqs(S, lo, hi) ==
    UNION {[1..m -> {float(s) : s \in S}] : m \in lo..hi}

(***************************************************************************)
(* Frames of functions that are not running.                               *)
(***************************************************************************)
IdleAcv == [pc |-> "idle", X |-> <<>>, k |-> 0, mean |-> float(0), result |-> float(0)]

IdleCf ==
    [pc |-> "idle", fa |-> [kind |-> "const", c |-> float(1)],
     fb |-> [kind |-> "const", c |-> float(1)], x |-> float(0),
     epsilon |-> float(0), maxiter |-> 0, small |-> float(0),
     h_prev |-> nan, n |-> 0, d_prev |-> nan, c_prev |-> nan, hn |-> nan,
     delta_n |-> nan, evals |-> <<>>]

IdleRib == [pc |-> "idle", frames |-> <<>>, result |-> "none", error |-> "none"]

IdleDm ==
    [pc |-> "idle", V |-> <<>>, P1 |-> <<>>, P2 |-> <<>>, loss |-> "squared",
     h |-> 0, one_sided |-> FALSE, harvey_correction |-> FALSE,
     variance_estimator |-> "acf", n |-> 0, mean |-> float(0), D |-> <<>>,
     V_d |-> float(0), dmstat_sign |-> 0, dmstat_sq |-> float(0),
     pvalue |-> "none", outcome |-> "none", loss_calls |-> 0,
     autocovariance_calls |-> 0]

(***************************************************************************)
(* autocovariance(X, k, mean)                                              *)
(***************************************************************************)
islice(X, k) == SubSeq(X, k + 1, Len(X))

zip(A, B) == [i \in 1..Min(Len(A), Len(B)) |-> <<A[i], B[i]>>]

RECURSIVE sum(_)
sum(S) == IF S = <<>> THEN float(0) ELSE RAdd(Head(S), sum(Tail(S)))

autocovariance_biased(X, k, mean) ==
    LET Z == zip(islice(X, k), X)
    IN  RDiv(sum([i \in DOMAIN Z |-> RMul(RSub(Z[i][1], mean), RSub(Z[i][2], mean))]),
             float(Len(X) - k))

autocovariance(X, k, mean) ==
    LET Z == zip(islice(X, k), X)
    IN  RDiv(sum([i \in DOMAIN Z |-> RMul(RSub(Z[i][1], mean), RSub(Z[i][2], mean))]),
             float(Len(X)))

(***************************************************************************)
(* evaluate_continuous_fraction(fa, fb, x, epsilon, maxiter, small)        *)
(*                                                                         *)
(* A coefficient function is a record; Coef applies it.  "const" is        *)
(* n, x |-> c; "head" is c at n = 0 and 1 afterwards; "scaled" is          *)
(* n, x |-> c * n * x; "beta_fa" and "beta_fb" are the closures fa and fb  *)
(* of regularized_incomplete_beta over its parameters a and b.             *)
(***************************************************************************)
beta_fa(n, x) == float(1)

beta_fb(n, x, a, b) ==
    IF n % 2 = 0
    THEN LET m == Rat(n, 2)
             twom == RMul(float(2), m)
         IN  RDiv(RMul(RMul(m, RSub(b, m)), x),
                  RMul(RSub(RAdd(a, twom), float(1)), RAdd(a, twom)))
    ELSE LET m == Rat(n - 1, 2)
             twom == RMul(float(2), m)
         IN  RSub(float(0),
                  RDiv(RMul(RMul(RAdd(a, m), RAdd(RAdd(a, b), m)), x),
                       RMul(RAdd(a, twom), RAdd(RAdd(a, twom), float(1)))))

Coef(f, n, x) ==
    CASE f.kind = "const" -> f.c
      [] f.kind = "head" -> IF n = 0 THEN f.c ELSE float(1)
      [] f.kind = "scaled" -> RMul(RMul(f.c, float(n)), x)
      [] f.kind = "beta_fa" -> beta_fa(n, x)
      [] f.kind = "beta_fb" -> beta_fb(n, x, f.a, f.b)

\* fabs applied to a bool: fabs(True) = 1.0, fabs(False) = 0.0.
fabs_bool(p) == IF p THEN float(1) ELSE float(0)

truthy(u) == u /= float(0)

floor_small(u, small) == IF RLt(fabs(u), small) THEN small ELSE u

CFEnter ==
    /\ cf.pc = "call"
    /\ LET h0 == Coef(cf.fa, 0, cf.x)
           h1 == IF truthy(fabs_bool(RLt(h0, cf.small))) THEN cf.small ELSE h0
       IN  cf' = [cf EXCEPT !.pc = "loop", !.h_prev = h1, !.n = 1,
                            !.d_prev = float(0), !.c_prev = h1, !.hn = h1]
    /\ UNCHANGED <<acv, rib, dm>>

CFIterate ==
    /\ cf.pc = "loop"
    /\ cf.n < cf.maxiter
    /\ LET a == Coef(cf.fa, cf.n, cf.x)
           b == Coef(cf.fb, cf.n, cf.x)
           dn0 == floor_small(RAdd(a, RMul(b, cf.d_prev)), cf.small)
           cn == floor_small(RAdd(a, RDiv(b, cf.c_prev)), cf.small)
           dn == RDiv(float(1), dn0)
           delta_n == RMul(cn, dn)
           hn == RMul(cf.h_prev, delta_n)
       IN  IF RLt(fabs(RSub(delta_n, float(1))), cf.epsilon)
           THEN cf' = [cf EXCEPT !.pc = "break", !.hn = hn, !.delta_n = delta_n,
                                 !.evals = Append(@, cf.n)]
           ELSE cf' = [cf EXCEPT !.hn = hn, !.delta_n = delta_n,
                                 !.d_prev = dn, !.c_prev = cn, !.h_prev = hn,
                                 !.n = @ + 1, !.evals = Append(@, cf.n)]
    /\ UNCHANGED <<acv, rib, dm>>

CFReturn ==
    /\ IF cf.pc = "loop" THEN ~(cf.n < cf.maxiter) ELSE cf.pc = "break"
    /\ cf' = [cf EXCEPT !.pc = "done"]
    /\ UNCHANGED <<acv, rib, dm>>

(***************************************************************************)
(* Inputs of a top-level call of evaluate_continuous_fraction.             *)
(***************************************************************************)
FaFuns ==
    {[kind |-> "head", c |-> c] : c \in {float(-5), float(0), float(1), Rat(1, 16)}}
      \cup {[kind |-> "const", c |-> c] : c \in {float(0), float(2), Rat(-1, 2)}}
      \cup {[kind |-> "beta_fa"]}

FbFuns ==
    {[kind |-> "const", c |-> c] : c \in {float(0), float(1), float(-1)}}
      \cup {[kind |-> "scaled", c |-> float(1)]}
      \cup {[kind |-> "beta_fb", a |-> a, b |-> b] :
               a \in {Rat(1, 2), float(1)}, b \in {Rat(1, 2), float(2)}}

CFPoints == {Rat(1, 4), Rat(1, 2)}

CFEpsilons == {Rat(1, 2), Rat(1, 16)}

CFSmalls == {Rat(1, 8)}

InitCF ==
    /\ \E fa \in FaFuns, fb \in FbFuns, x \in CFPoints, epsilon \in CFEpsilons,
          maxiter \in 1..MaxIter, small \in CFSmalls :
         cf = [IdleCf EXCEPT !.pc = "call", !.fa = fa, !.fb = fb, !.x = x,
                             !.epsilon = epsilon, !.maxiter = maxiter,
                             !.small = small]
    /\ acv = IdleAcv
    /\ rib = IdleRib
    /\ dm = IdleDm

NextCF == CFEnter \/ CFIterate \/ CFReturn

SpecCF == InitCF /\ [][NextCF]_vars

(***************************************************************************)
(* C7: the evaluator runs iterations n = 1, 2, ... in order and stops at   *)
(* the first n with |delta_n - 1| < epsilon or at n = maxiter, whichever   *)
(* comes first: when it returns without having converged the iteration     *)
(* with index maxiter has been executed, and none beyond it.               *)
(***************************************************************************)
Converged ==
    /\ ~isnan(cf.delta_n)
    /\ RLt(fabs(RSub(cf.delta_n, float(1))), cf.epsilon)

C7_StopsAtMaxiter ==
    cf.pc = "done" =>
        /\ cf.evals = [i \in 1..Len(cf.evals) |-> i]
        /\ Len(cf.evals) <= cf.maxiter
        /\ (~Converged => Len(cf.evals) = cf.maxiter)

(***************************************************************************)
(* C10: h0 is small exactly when |fa(0, x)| < small and is fa(0, x)        *)
(* unchanged otherwise, negative values included.                          *)
(***************************************************************************)
C10_InitialFloor ==
    (cf.pc = "loop" /\ cf.evals = <<>>) =>
        cf.h_prev = floor_small(Coef(cf.fa, 0, cf.x), cf.small)

(***************************************************************************)
(* regularized_incomplete_beta(x, a, b)                                    *)
(*                                                                         *)
(* rib.frames is the call stack of the function, the running activation    *)
(* last.  The value of exp(...) / evaluate_continuous_fraction(...) is not *)
(* computed: a returned value is "nan" or "num".  math.log(0) and          *)
(* math.log1p(-1) raise ValueError.                                        *)
(***************************************************************************)
RecursionLimit == 4

out_of_domain(x, a, b) ==
    \/ isnan(x) \/ isnan(a) \/ isnan(b)
    \/ RLt(x, float(0)) \/ RLt(float(1), x)
    \/ RLe(a, float(0)) \/ RLe(b, float(0))

reflect_inclusive(x, a, b) ==
    /\ RLe(RDiv(RAdd(a, float(1)), RAdd(RAdd(float(2), b), a)), x)
    /\ RLe(RSub(float(1), x), RDiv(RAdd(b, float(1)), RAdd(RAdd(float(2), b), a)))

reflect(x, a, b) ==
    /\ RLt(RDiv(RAdd(a, float(1)), RAdd(RAdd(float(2), b), a)), x)
    /\ RLe(RSub(float(1), x), RDiv(RAdd(b, float(1)), RAdd(RAdd(float(2), b), a)))

log_raises(x) == RLe(x, float(0))

log1p_raises(u) == RLe(u, float(-1))

Top(frames) == frames[Len(frames)]

\* The body of the running activation, up to its recursive call, its return
\* or the exception it raises.
RibBody ==
    /\ rib.pc = "call"
    /\ LET f == Top(rib.frames)
       IN  IF out_of_domain(f.x, f.a, f.b)
           THEN rib' = [rib EXCEPT !.pc = "return", !.result = "nan"]
           ELSE IF reflect(f.x, f.a, f.b)
           THEN IF Len(rib.frames) >= RecursionLimit
                THEN rib' = [rib EXCEPT !.pc = "raised", !.error = "RecursionError"]
                ELSE rib' = [rib EXCEPT !.frames =
                                Append(@, [x |-> RSub(float(1), f.x), a |-> f.b, b |-> f.a])]
           ELSE IF log_raises(f.x) \/ log1p_raises(RSub(float(0), f.x))
           THEN rib' = [rib EXCEPT !.pc = "raised", !.error = "ValueError"]
           ELSE rib' = [rib EXCEPT !.pc = "return", !.result = "num"]
    /\ UNCHANGED <<acv, cf, dm>>

\* 1 - nan is nan.
one_minus(r) == r

\* The running activation returns: to line 92 of the activation below it, or
\* to the caller of the function.
RibReturn ==
    /\ rib.pc = "return"
    /\ IF Len(rib.frames) = 1
       THEN rib' = [rib EXCEPT !.pc = "done"]
       ELSE rib' = [rib EXCEPT !.frames = SubSeq(@, 1, Len(@) - 1),
                               !.result = one_minus(@)]
    /\ UNCHANGED <<acv, cf, dm>>

(***************************************************************************)
(* Inputs of a top-level call of regularized_incomplete_beta.              *)
(***************************************************************************)
BetaPoints == {nan} \cup {Rat(i, MaxGrid) : i \in -1..(MaxGrid + 1)}

BetaShapes == {nan} \cup {Rat(j, 2) : j \in -1..MaxGrid}

InitBeta ==
    /\ \E x \in BetaPoints, a \in BetaShapes, b \in BetaShapes :
         rib = [IdleRib EXCEPT !.pc = "call",
                               !.frames = <<[x |-> x, a |-> a, b |-> b]>>]
    /\ acv = IdleAcv
    /\ cf = IdleCf
    /\ dm = IdleDm

NextBeta == RibBody \/ RibReturn

SpecBeta == InitBeta /\ [][NextBeta]_vars

(***************************************************************************)
(* C5: regularized_incomplete_beta never raises: it returns NaN for an     *)
(* argument out of the domain and a number for every a > 0, b > 0 and x in *)
(* [0, 1], x = 0 and x = 1 included.                                       *)
(***************************************************************************)
C5_NeverRaises ==
    /\ rib.pc /= "raised"
    /\ rib.pc = "done" =>
         LET f == rib.frames[1]
         IN  rib.result = IF out_of_domain(f.x, f.a, f.b) THEN "nan" ELSE "num"

(***************************************************************************)
(* C9: the reflection is taken at most once per top-level call: the        *)
(* arguments (1 - x, b, a) of a reflected call do not satisfy the          *)
(* reflection condition, so the call stack never holds more than the       *)
(* top-level activation and one reflected activation, and the reflected    *)
(* activation takes the direct branch.                                     *)
(***************************************************************************)
C9_ReflectsAtMostOnce ==
    /\ Len(rib.frames) <= 2
    /\ rib.error /= "RecursionError"
    /\ Len(rib.frames) = 2 =>
         LET f == rib.frames[1]
             g == rib.frames[2]
         IN  /\ ~out_of_domain(f.x, f.a, f.b)
             /\ RLt(RDiv(RAdd(f.a, float(1)), RAdd(RAdd(f.a, f.b), float(2))), f.x)
             /\ g = [x |-> RSub(float(1), f.x), a |-> f.b, b |-> f.a]
             /\ ~out_of_domain(g.x, g.a, g.b)
             /\ ~(/\ RLt(RDiv(RAdd(g.a, float(1)), RAdd(RAdd(g.a, g.b), float(2))), g.x)
                  /\ RLe(RSub(float(1), g.x),
                         RDiv(RAdd(g.b, float(1)), RAdd(RAdd(g.a, g.b), float(2)))))

C9_Witness ==
    /\ rib.pc = "return"
    /\ Len(rib.frames) = 2
    /\ rib.result = "num"
    /\ rib.frames[1] = [x |-> Rat(3, 4), a |-> float(1), b |-> float(1)]

(***************************************************************************)
(* dm_test(V, P1, P2, loss, h, one_sided, harvey_correction,               *)
(*         variance_estimator)                                             *)
(*                                                                         *)
(* dmstat is kept as its sign and its square, which are rational where     *)
(* dmstat itself (a quotient of square roots) is not.                      *)
(***************************************************************************)
squared_error(u, v) == RMul(RSub(u, v), RSub(u, v))

\* An asymmetric loss: a forecast above the actual value costs double.
asymmetric_error(u, v) ==
    IF RLt(u, v) THEN RMul(float(2), RSub(v, u)) ELSE RSub(u, v)

apply_loss(loss, u, v) ==
    IF loss = "squared" THEN squared_error(u, v) ELSE asymmetric_error(u, v)

lengths_differ_first_pair_only(V, P1, P2) == Len(V) /= Len(P1)

lengths_differ(V, P1, P2) == ~(Len(V) = Len(P1) /\ Len(P1) = Len(P2))

horizon_invalid(h, V) == h <= 0 \/ h > Len(V)

loss_differential_swapped(loss, v, p1, p2) ==
    RSub(apply_loss(loss, v, p1), apply_loss(loss, p2, v))

loss_differential(loss, v, p1, p2) ==
    RSub(apply_loss(loss, v, p1), apply_loss(loss, v, p2))

flat_weight(i, h) == float(2)

bartlett_weight(i, h) == RMul(float(2), RSub(float(1), Rat(i, h)))

\* The sum the loop over range(h) leaves in V_d after the iterations 0..i.
RECURSIVE acf_sum(_, _, _)
acf_sum(D, mean, i) ==
    IF i < 0 THEN float(0)
    ELSE LET v_i == autocovariance(D, i, mean)
         IN  IF i = 0 THEN RAdd(acf_sum(D, mean, i - 1), v_i)
             ELSE RAdd(acf_sum(D, mean, i - 1), RMul(float(2), v_i))

RECURSIVE bartlett_sum(_, _, _, _)
bartlett_sum(D, mean, h, i) ==
    IF i < 0 THEN float(0)
    ELSE LET v_i == autocovariance(D, i, mean)
         IN  IF i = 0 THEN RAdd(bartlett_sum(D, mean, h, i - 1), v_i)
             ELSE RAdd(bartlett_sum(D, mean, h, i - 1),
                       RMul(v_i, bartlett_weight(i, h)))

\* The radicand of harvey_adj.
harvey_radicand(n, h) ==
    RDiv(RAdd(float(n + 1 - 2 * h), Rat(h * (h - 1), n)), float(n))

sign(u) == IF u[1] < 0 THEN -1 ELSE IF u[1] = 0 THEN 0 ELSE 1

Raise(kind) == [dm EXCEPT !.pc = "raised", !.outcome = kind]

\* Lines 173-186.
DmValidate ==
    /\ dm.pc = "call"
    /\ IF lengths_differ(dm.V, dm.P1, dm.P2) \/ horizon_invalid(dm.h, dm.V)
       THEN dm' = Raise("InvalidParameterException")
       ELSE dm' = [dm EXCEPT !.pc = "accumulate"]
    /\ UNCHANGED <<acv, cf, rib>>

\* Lines 188-198.
DmAccumulate ==
    /\ dm.pc = "accumulate"
    /\ LET Z == zip(zip(dm.V, dm.P1), dm.P2)
           D == [t \in DOMAIN Z |->
                   loss_differential(dm.loss, Z[t][1][1], Z[t][1][2], Z[t][2])]
           n == Len(dm.P1)
       IN  IF n = 0
           THEN dm' = [Raise("ZeroDivisionError") EXCEPT !.n = n]
           ELSE dm' = [dm EXCEPT !.pc = "variance", !.n = n, !.D = D,
                                 !.mean = RDiv(sum(D), float(n)),
                                 !.loss_calls = 2 * Len(Z)]
    /\ UNCHANGED <<acv, cf, rib>>

\* Lines 200-222.
DmVariance ==
    /\ dm.pc = "variance"
    /\ IF dm.variance_estimator = "acf"
       THEN dm' = [dm EXCEPT !.pc = "check",
                             !.V_d = RDiv(acf_sum(dm.D, dm.mean, dm.h - 1), float(dm.n)),
                             !.autocovariance_calls = dm.h]
       ELSE IF dm.variance_estimator = "bartlett"
       THEN dm' = [dm EXCEPT !.pc = "check",
                             !.V_d = RDiv(bartlett_sum(dm.D, dm.mean, dm.h, dm.h - 1),
                                          float(dm.n)),
                             !.autocovariance_calls = dm.h]
       ELSE dm' = Raise("InvalidParameterException")
    /\ UNCHANGED <<acv, cf, rib>>

\* Lines 224-234.
DmCheckVariance ==
    /\ dm.pc = "check"
    /\ IF dm.V_d = float(0)
       THEN dm' = Raise("ZeroVarianceException")
       ELSE IF RLt(dm.V_d, float(0))
       THEN dm' = Raise("NegativeVarianceException")
       ELSE dm' = [dm EXCEPT !.pc = "statistic"]
    /\ UNCHANGED <<acv, cf, rib>>

\* Lines 236-240.  sqrt of a negative number raises ValueError.
DmStatistic ==
    /\ dm.pc = "statistic"
    /\ LET q == harvey_radicand(dm.n, dm.h)
           ratio == RDiv(RMul(dm.mean, dm.mean), dm.V_d)
       IN  IF dm.harvey_correction
           THEN IF RLt(q, float(0))
                THEN dm' = Raise("ValueError")
                ELSE dm' = [dm EXCEPT !.pc = "pvalue",
                                      !.dmstat_sign = sign(q) * sign(dm.mean),
                                      !.dmstat_sq = RMul(q, ratio)]
           ELSE dm' = [dm EXCEPT !.pc = "pvalue",
                                 !.dmstat_sign = sign(dm.mean),
                                 !.dmstat_sq = ratio]
    /\ UNCHANGED <<acv, cf, rib>>

\* Lines 242-244: the arguments are evaluated and regularized_incomplete_beta
\* is called.
DmCallBeta ==
    /\ dm.pc = "pvalue"
    /\ LET den == RAdd(float(dm.n - 1), dm.dmstat_sq)
       IN  IF den = float(0)
           THEN /\ dm' = Raise("ZeroDivisionError")
                /\ rib' = rib
           ELSE /\ dm' = [dm EXCEPT !.pc = "beta"]
                /\ rib' = [IdleRib EXCEPT
                             !.pc = "call",
                             !.frames = <<[x |-> RDiv(float(dm.n - 1), den),
                                           a |-> RMul(Rat(1, 2), float(dm.n - 1)),
                                           b |-> Rat(1, 2)]>>]
    /\ UNCHANGED <<acv, cf>>

\* pvalue / 2 and 1 - pvalue / 2 of a number are numbers, of nan nan.
one_sided_pvalue(pvalue, dmstat_sign) == pvalue

\* Lines 244-249: regularized_incomplete_beta returns or raises; an exception
\* is not caught.
DmReturn ==
    /\ dm.pc = "beta"
    /\ rib.pc \in {"done", "raised"}
    /\ IF rib.pc = "raised"
       THEN dm' = Raise(rib.error)
       ELSE dm' = [dm EXCEPT !.pc = "done", !.outcome = "returned",
                             !.pvalue = IF dm.one_sided
                                        THEN one_sided_pvalue(rib.result, dm.dmstat_sign)
                                        ELSE rib.result]
    /\ UNCHANGED <<acv, cf, rib>>

(***************************************************************************)
(* Inputs of a call of dm_test.  The validation reads only the lengths of  *)
(* the series, so series of unequal lengths are drawn as series of zeros.  *)
(***************************************************************************)
ActualVals == {0}

ForecastVals == {0, 1}

Zeros(m) == [t \in 1..m |-> float(0)]

SeriesTriples ==
    UNION {{<<V, P1, P2>> : V \in FloatSeqs(ActualVals, m, m),
                            P1 \in FloatSeqs(ForecastVals, m, m),
                            P2 \in FloatSeqs(ForecastVals, m, m)} : m \in 1..MaxN}
      \cup {<<Zeros(i), Zeros(j), Zeros(k)>> :
              i \in 0..MaxN, j \in 0..MaxN, k \in 0..MaxN}

Horizons == -1..(MaxN + 1)

Estimators == {"acf", "bartlett", "newey-west"}

Losses == {"squared", "asymmetric"}

InitDM ==
    /\ \E S \in SeriesTriples, h \in Horizons, loss \in Losses,
          one_sided \in BOOLEAN, harvey_correction \in BOOLEAN,
          variance_estimator \in Estimators :
         dm = [IdleDm EXCEPT !.pc = "call", !.V = S[1], !.P1 = S[2], !.P2 = S[3],
                             !.h = h, !.loss = loss, !.one_sided = one_sided,
                             !.harvey_correction = harvey_correction,
                             !.variance_estimator = variance_estimator]
    /\ acv = IdleAcv
    /\ cf = IdleCf
    /\ rib = IdleRib

NextDM ==
    \/ DmValidate
    \/ DmAccumulate
    \/ DmVariance
    \/ DmCheckVariance
    \/ DmStatistic
    \/ DmCallBeta
    \/ RibBody
    \/ RibReturn
    \/ DmReturn

SpecDM == InitDM /\ [][NextDM]_vars

(***************************************************************************)
(* Inputs of a top-level call of autocovariance.                           *)
(***************************************************************************)
AcovVals == {0, 1, 2, 3}

ArithmeticMean(X) == RDiv(sum(X), float(Len(X)))

AcovMeans(X) == {ArithmeticMean(X), float(0), Rat(1, 2), float(-1)}

InitAcov ==
    /\ \E X \in FloatSeqs(AcovVals, 1, MaxN) :
         \E k \in 0..(Len(X) - 1) :
           \E mean \in AcovMeans(X) :
             acv = [pc |-> "call", X |-> X, k |-> k, mean |-> mean, result |-> float(0)]
    /\ cf = IdleCf
    /\ rib = IdleRib
    /\ dm = IdleDm

AcovReturn ==
    /\ acv.pc = "call"
    /\ acv' = [acv EXCEPT !.pc = "done",
                          !.result = autocovariance(acv.X, acv.k, acv.mean)]
    /\ UNCHANGED <<cf, rib, dm>>

NextAcov == AcovReturn

SpecAcov == InitAcov /\ [][NextAcov]_vars

(***************************************************************************)
(* C6: autocovariance(X, k, mean) with 0 <= k < n is                       *)
(* (1/n) * sum over t = 0..n-k-1 of (X[t+k] - mean) * (X[t] - mean); at    *)
(* k = 0 with mean the arithmetic mean of X it is the population variance  *)
(* of X (the mean of the squares minus the square of the mean).            *)
(***************************************************************************)
RECURSIVE LagSum(_, _, _, _)
LagSum(X, k, mean, t) ==
    IF t < 0 THEN float(0)
    ELSE RAdd(LagSum(X, k, mean, t - 1),
              RMul(RSub(X[t + k + 1], mean), RSub(X[t + 1], mean)))

RECURSIVE SumSquares(_, _)
SumSquares(X, t) ==
    IF t = 0 THEN float(0) ELSE RAdd(SumSquares(X, t - 1), RMul(X[t], X[t]))

PopulationVariance(X) ==
    LET n == float(Len(X))
        m == ArithmeticMean(X)
    IN  RSub(RDiv(SumSquares(X, Len(X)), n), RMul(m, m))

C6_AutocovarianceFormula ==
    (acv.pc = "done" /\ acv.k < Len(acv.X)) =>
        /\ acv.result =
             RDiv(LagSum(acv.X, acv.k, acv.mean, Len(acv.X) - acv.k - 1),
                  float(Len(acv.X)))
        /\ (acv.k = 0 /\ acv.mean = ArithmeticMean(acv.X)) =>
              acv.result = PopulationVariance(acv.X)

C6_Witness ==
    /\ acv.pc = "done"
    /\ acv.k = 1
    /\ Len(acv.X) = 3
    /\ acv.mean = ArithmeticMean(acv.X)
    /\ acv.result = Rat(-4, 27)

(***************************************************************************)
(* C1: every invalid-parameter condition of dm_test is detected before any *)
(* numeric work: when the call ends with InvalidParameterException the     *)
(* loss function has not been called and no autocovariance computed.       *)
(***************************************************************************)
C1_ValidationBeforeNumericWork ==
    dm.outcome = "InvalidParameterException" =>
        dm.loss_calls = 0 /\ dm.autocovariance_calls = 0

(***************************************************************************)
(* C2: a call of dm_test ends with a returned (statistic, p-value) pair,   *)
(* InvalidParameterException, ZeroVarianceException or                     *)
(* NegativeVarianceException, and with no other kind of error.             *)
(***************************************************************************)
C2_OnlyTypedOutcomes ==
    dm.pc \in {"raised", "done"} =>
        dm.outcome \in {"returned", "InvalidParameterException",
                        "ZeroVarianceException", "NegativeVarianceException"}

(***************************************************************************)
(* C3: dm_test raises InvalidParameterException whenever the lengths of V, *)
(* P1 and P2 are not all equal and whenever h <= 0 or h > n, whatever the  *)
(* loss, the flags and the estimator; an empty series is always rejected.  *)
(***************************************************************************)
C3_InvalidParameters ==
    (/\ dm.pc /= "call"
     /\ \/ Len(dm.V) /= Len(dm.P1)
        \/ Len(dm.P1) /= Len(dm.P2)
        \/ dm.h <= 0
        \/ dm.h > Len(dm.V)
        \/ Len(dm.V) = 0)
      => (dm.pc = "raised" /\ dm.outcome = "InvalidParameterException")

C3_Witness ==
    /\ dm.pc = "raised"
    /\ dm.outcome = "InvalidParameterException"
    /\ Len(dm.V) = 2
    /\ Len(dm.P1) = 2
    /\ Len(dm.P2) = 3
    /\ dm.h = 1
    /\ dm.variance_estimator = "bartlett"

(***************************************************************************)
(* C4: when P1 = P2 element-wise, n >= 1, 1 <= h <= n and the estimator is *)
(* "acf" or "bartlett", dm_test raises ZeroVarianceException: it returns   *)
(* no pair and raises no other exception.                                  *)
(***************************************************************************)
C4_IdenticalForecasts ==
    (/\ dm.P1 = dm.P2
     /\ Len(dm.V) = Len(dm.P1)
     /\ Len(dm.V) >= 1
     /\ 1 <= dm.h /\ dm.h <= Len(dm.V)
     /\ dm.variance_estimator \in {"acf", "bartlett"})
      => /\ dm.pc \in {"call", "accumulate", "variance", "check", "raised"}
         /\ dm.pc = "raised" => dm.outcome = "ZeroVarianceException"

C4_Witness ==
    /\ dm.pc = "raised"
    /\ dm.outcome = "ZeroVarianceException"
    /\ dm.P1 = <<float(1), float(0), float(1)>>
    /\ dm.P2 = dm.P1
    /\ dm.h = 2
    /\ dm.loss = "asymmetric"
    /\ dm.variance_estimator = "bartlett"

(***************************************************************************)
(* C8: under "bartlett", for a loss differential D of length n >= 1 and    *)
(* 1 <= h <= n, V_d is (1/n) * [gamma_0 + sum over i = 1..h-1 of           *)
(* 2 * (1 - i/h) * gamma_i] and is >= 0, so that dm_test does not raise    *)
(* NegativeVarianceException.                                              *)
(***************************************************************************)
Gamma(D, i, mean) == RDiv(LagSum(D, i, mean, Len(D) - i - 1), float(Len(D)))

RECURSIVE TaperedSum(_, _, _, _)
TaperedSum(D, mean, h, i) ==
    IF i = 0 THEN Gamma(D, 0, mean)
    ELSE RAdd(TaperedSum(D, mean, h, i - 1),
              RDiv(RMul(float(2 * (h - i)), Gamma(D, i, mean)), float(h)))

C8_BartlettNonNegative ==
    (dm.variance_estimator = "bartlett" /\ dm.pc \notin {"call", "accumulate", "variance"}
       /\ dm.outcome /= "InvalidParameterException")
      => /\ dm.V_d = RDiv(TaperedSum(dm.D, dm.mean, dm.h, dm.h - 1), float(Len(dm.D)))
         /\ RLe(float(0), dm.V_d)
         /\ dm.outcome /= "NegativeVarianceException"

C8_Witness ==
    /\ dm.variance_estimator = "bartlett"
    /\ dm.pc = "done"
    /\ dm.h = 2
    /\ dm.D = <<float(1), float(-1), float(1)>>
    /\ RLt(autocovariance(dm.D, 1, dm.mean), float(0))
    /\ dm.V_d = Rat(8, 81)

====
